---- MODULE Spec2Model ----
(***************************************************************************)
(* Model of src/src/components/FortuneGacha.tsx: the phase state machine   *)
(* of the fortune draw (handleTap, the app.ticker callback, handleResize)  *)
(* and the Particle / ConcentrationLine physics it drives.                 *)
(*                                                                         *)
(* Numbers are fixed point:                                                *)
(*   chargeProgress, gachaAlpha   in units of 1/One   (One = 90 * 60)      *)
(*   gachaScale                   in units of 1/ScaleOne                   *)
(*   life                         in units of 1/LifeOne                    *)
(*   positions, velocities, sizes in units of 1/Q                          *)
(*   idleTime                     in units of 1/50 (idleTime += delta*0.02)*)
(*   a Math.random() result u     stands for u / RandDen                   *)
(* maxLife is the rational mlNum / mlDen (seconds).                        *)
(*                                                                         *)
(* Drawing (drawGachaMachine, drawParticles, the stars of drawBackground,   *)
(* the card's graphics) writes no field the state machine reads and is not *)
(* part of the state here.  The Math.random() calls of one constructor all *)
(* return the same draw, and the draws come from small sets on the quarter *)
(* turns, where cos and sin are integers.                                  *)
(*                                                                         *)
(* The gsap tweens the callbacks start are part of the state (tweens, and  *)
(* the properties they write).  Spec is the program's own callbacks; the   *)
(* frames of gsap's ticker, which render the tweens, are added in          *)
(* TweenSpec, and FairSpec is the draw under a ticker that keeps firing.   *)
(***************************************************************************)
EXTENDS Integers, Sequences, FiniteSets, TLC

\* ------------------------------------------------------------------ bounds
DeltaUnit == 15
MaxDeltaSteps == 2
MaxEnergy == 1
MaxLines == 1
MaxAmbient == 1
MaxIdleTime == 30
NumStreams == 2
GsapUnit == 5
MaxGsapSteps == 1

\* ticker.deltaTime values handed to the ticker callback
Deltas == {DeltaUnit * k : k \in 1..MaxDeltaSteps}

\* the time between two frames of gsap's ticker, in units of 1/10 s
GsapDeltas == {GsapUnit * k : k \in 1..MaxGsapSteps}

\* ------------------------------------------------------- program constants
ChargeTicks == 90
ReleaseTicks == 60
ExplosionCount == 150
ProximityRadius == 50
FrameRate == 60

One == ChargeTicks * ReleaseTicks
ScaleOne == 10 * One
LifeOne == 1200
Q == 100
RandDen == 60
NoFortune == 0

\* FORTUNES: rank (romanised) and color
FORTUNES ==
  << [rank |-> "daikichi", color |-> 16766720],
     [rank |-> "chuukichi", color |-> 16739229],
     [rank |-> "shoukichi", color |-> 8246268],
     [rank |-> "kichi", color |-> 8843180],
     [rank |-> "suekichi", color |-> 12891645],
     [rank |-> "kyou", color |-> 9741240] >>

\* colors of the explosion: 0xffd700, 0xff6b9d, 0x7dd3fc, 0xa5b4fc, 0xffffff
colors == << 16766720, 16739229, 8246268, 10859772, 16777215 >>

EnergyColor == 10859772

\* window sizes a resize may produce
ScreenSizes == { [width |-> 800, height |-> 600],
                 [width |-> 1200, height |-> 600] }

\* ----------------------------------------------------------- Math.random()
\* the results of Math.random() the model draws, as numerators over RandDen
RandomDraws == {0, RandDen \div 2}

\* the draws of addEnergyParticle (0: 300 from the centre, speed 3) and of
\* new ConcentrationLine (1/2: 500 from the centre, speed 8)
EnergyDraws == {0}
LineDraws == {RandDen \div 2}

\* Math.floor(Math.random() * n)
RandomIndex(u, n) == (u * n) \div RandDen

\* Math.random() * span + base, in units of 1/Q
RandomRange(u, span, base) == (u * span * Q) \div RandDen + base * Q

\* Math.random() < p / 10
RandomBelow(u, p) == u * 10 < p * RandDen

\* Math.cos / Math.sin of Math.random() * Math.PI * 2, exact on the quarter
\* turns (u a multiple of RandDen / 4)
Cos(u) == << 1, 0, -1, 0 >>[((u * 4) \div RandDen) + 1]
Sin(u) == << 0, 1, 0, -1 >>[((u * 4) \div RandDen) + 1]

VARIABLES phase, chargeProgress, selectedFortune, particles, energyParticles,
          concentrationLines, idleTime, screen, instructionVisible,
          cardVisible, cardFortune, gachaScale, gachaAlpha,
          tweens, overlayAlpha, bloomScale, brightness, flashAlpha,
          cardScale, cardRotation,
          chargeElapsed, releaseElapsed, lastEvent

\* chargeElapsed, releaseElapsed and lastEvent are observers, not fields of
\* the program: the sum of the ticker.deltaTime values of the ticks of the
\* charging (of the releasing) phase of the current draw, the tick that left
\* it included, and the callback that ran last ("tap", "tick", "resize",
\* "gsap").
vars == << phase, chargeProgress, selectedFortune, particles, energyParticles,
           concentrationLines, idleTime, screen, instructionVisible,
           cardVisible, cardFortune, gachaScale, gachaAlpha,
           tweens, overlayAlpha, bloomScale, brightness, flashAlpha,
           cardScale, cardRotation,
           chargeElapsed, releaseElapsed, lastEvent >>

\* the properties the tweens write: the alpha of the darkening overlay, the
\* bloom filter's bloomScale and brightness, the alpha of the white fill of
\* the background (Starfield: the starfield is drawn), and the scale and
\* rotation of the card container
tweened == << overlayAlpha, bloomScale, brightness, flashAlpha, cardScale,
              cardRotation >>

\* ------------------------------------------------------------------ centre
\* app.screen.width / 2 and app.screen.height / 2 of the screen s
CenterX(s) == (s.width * Q) \div 2
CenterY(s) == (s.height * Q) \div 2

getCenterX == CenterX(screen)
getCenterY == CenterY(screen)

\* ---------------------------------------------------------------- Particle
\* new Particle(x, y, color), all of the constructor's Math.random() calls
\* returning u
NewParticle(x, y, color, u) ==
  LET speed == RandomRange(u, 15, 5)
  IN [ x |-> x, y |-> y,
       vx |-> Cos(u) * speed, vy |-> Sin(u) * speed,
       life |-> LifeOne,
       mlNum |-> RandDen + 2 * u, mlDen |-> RandDen,
       size |-> RandomRange(u, 4, 2),
       color |-> color,
       gravity |-> 15, friction |-> 98 ]

\* delta / 60 / this.maxLife
LifeDecay(p, delta) ==
  ((LifeOne \div FrameRate) * delta * p.mlDen) \div p.mlNum

\* Particle.update: the particle after the update
ParticleUpdate(p, delta) ==
  LET vy1 == p.vy + p.gravity * delta
      vx2 == (p.vx * p.friction) \div 100
      vy2 == (vy1 * p.friction) \div 100
  IN [ p EXCEPT !.vx = vx2, !.vy = vy2,
                !.x = p.x + vx2 * delta,
                !.y = p.y + vy2 * delta,
                !.life = p.life - LifeDecay(p, delta) ]

\* mutant: the update reports a particle whose life is exactly 0 as alive
ParticleAliveAtZero(p) == p.life >= 0

\* Particle.update: its return value, read off the updated particle
ParticleAlive(p) == p.life > 0

\* ------------------------------------------------------- ConcentrationLine
NewConcentrationLine(centerX, centerY, u) ==
  [ angle |-> u,
    speed |-> RandomRange(u, 8, 4),
    length |-> RandomRange(u, 100, 50),
    width |-> RandomRange(u, 3, 1),
    distance |-> RandomRange(u, 200, 400),
    targetX |-> centerX, targetY |-> centerY ]

\* ConcentrationLine.update: the line after the update (speed is per unit of
\* delta, in units of 1/Q like distance)
LineUpdate(l, delta) == [ l EXCEPT !.distance = l.distance - l.speed * delta ]

\* ConcentrationLine.update: its return value, read off the updated line
LineAlive(l) == l.distance > 0

\* --------------------------------------------------------------- spawning
\* addEnergyParticle: the particle pushed, every Math.random() returning u
\* (cx and cy, the centre it is aimed at, are locals of addEnergyParticle and
\* no fields of the Particle: the record keeps them as observers)
EnergyParticle(u) ==
  LET cx == getCenterX
      cy == getCenterY
      distance == RandomRange(u, 200, 300)
      x == cx + Cos(u) * distance
      y == cy + Sin(u) * distance
      speed == RandomRange(u, 5, 3)
      particle == NewParticle(x, y, EnergyColor, u)
  IN [ x |-> particle.x, y |-> particle.y,
       vx |-> (0 - Cos(u)) * speed * 3,
       vy |-> (0 - Sin(u)) * speed * 3,
       life |-> particle.life,
       mlNum |-> distance, mlDen |-> speed * FrameRate,
       size |-> particle.size,
       color |-> particle.color,
       gravity |-> 0, friction |-> 100,
       cx |-> cx, cy |-> cy ]

\* addConcentrationLine
addConcentrationLine(u) == NewConcentrationLine(getCenterX, getCenterY, u)

\* the ambient particle of the result phase, every Math.random() returning u
AmbientParticle(u) ==
  LET cx == getCenterX
      cy == getCenterY
      dist == RandomRange(u, 50, 150)
  IN [ NewParticle(cx + Cos(u) * dist, cy + Sin(u) * dist,
                   FORTUNES[selectedFortune].color, u) EXCEPT
         !.vx = RandomRange(u, 2, 0) - Q,
         !.vy = (0 - RandomRange(u, 2, 0)) - Q,
         !.gravity = -2 ]

\* the i-th colour draw and constructor draw of the explosion loop, for the
\* r-th of the random streams the model considers
ExplosionColorDraw(r, i) == ((r + i) % 5) * (RandDen \div 5)
ExplosionDraw(r, i) == ((r + i) % 4) * (RandDen \div 4)

\* colors[Math.floor(Math.random() * colors.length)]
ExplosionColor(u) == colors[RandomIndex(u, Len(colors)) + 1]

\* the particles the explosion loop pushes on the screen s
ExplosionAt(s, r) ==
  [ i \in 1..ExplosionCount |->
      NewParticle(CenterX(s), CenterY(s),
                  ExplosionColor(ExplosionColorDraw(r, i)),
                  ExplosionDraw(r, i)) ]

\* the same, tabulated once for the screens and streams of the model
ExplosionTable ==
  [ s \in ScreenSizes |-> [ r \in 0..(NumStreams - 1) |-> ExplosionAt(s, r) ] ]

Explosion(r) == ExplosionTable[screen][r]

\* Math.hypot(p.x - cx, p.y - cy) < 50
ReachedCenter(p) ==
  LET dx == p.x - getCenterX
      dy == p.y - getCenterY
      lim == ProximityRadius * Q
  IN /\ dx < lim /\ dx > 0 - lim
     /\ dy < lim /\ dy > 0 - lim
     /\ dx * dx + dy * dy < lim * lim

\* array.filter over the updated elements
UpdateAll(s, delta) == [ i \in 1..Len(s) |-> ParticleUpdate(s[i], delta) ]

\* particles.filter(p => p.update(delta))
FilterAlive(s, delta) == SelectSeq(UpdateAll(s, delta), ParticleAlive)

\* mutant: the energy filter without its check of the distance to the centre
EnergyKeptWhileAlive(p) == ParticleAlive(p)

\* the filter of the energy particles: gone within 50 of the centre, or dead
EnergyKept(p) == IF ReachedCenter(p) THEN FALSE ELSE ParticleAlive(p)

FilterEnergy(s, delta) == SelectSeq(UpdateAll(s, delta), EnergyKept)

\* mutant: the lines are updated and none is filtered out
FilterLinesKeepsAll(s, delta) ==
  [ i \in 1..Len(s) |-> LineUpdate(s[i], delta) ]

\* concentrationLines.filter(l => l.update(delta))
FilterLines(s, delta) ==
  SelectSeq([ i \in 1..Len(s) |-> LineUpdate(s[i], delta) ], LineAlive)

\* -------------------------------------------------------------------- gsap
\* tweened values are in units of 1/Milli (the rotation in 1/Milli rad) and
\* the time of a tween in units of 1/10 s
Milli == 1000
Starfield == -1
Pi == 3142

\* the eased ratio, in units of 1/Milli, at time e of a tween of duration d:
\* power1.out (gsap's default ease), power2.out and back.out(1.5)
Ease(ease, e, d) ==
  CASE ease = "power1.out" ->
         Milli - (Milli * (d - e) * (d - e)) \div (d * d)
    [] ease = "power2.out" ->
         Milli - (Milli * (d - e) * (d - e) * (d - e)) \div (d * d * d)
    [] ease = "back.out" ->
         Milli + (Milli * (e - d) * (e - d) * (5 * (e - d) + 3 * d))
                   \div (2 * d * d * d)

\* gsap.to(target, { ...to, duration, ease, yoyo }): the tween as created.
\* from is the start value of each tweened property: that of the proxy
\* object, or << >> for a property of a shared object, which the tween reads
\* when it is first rendered
Tween(site, target, from, to, duration, ease, yoyo) ==
  [ site |-> site, target |-> target, from |-> from, to |-> to,
    duration |-> duration, ease |-> ease, yoyo |-> yoyo, time |-> 0 ]

\* the tweens of handleTap in idle: darken the screen, intensify the bloom
DarkenTween ==
  Tween("darken", "overlay", << 0 >>, << 700 >>, 5, "power1.out", FALSE)
ChargeBloomTween ==
  Tween("chargeBloom", "bloom", << >>, << 2000, 1500 >>, 15, "power1.out",
        FALSE)

\* the tweens of the tick that ends the charge: flash, max bloom (there and
\* back: yoyo, repeat 1)
FlashTween ==
  Tween("flash", "flash", << Milli >>, << 0 >>, 3, "power1.out", FALSE)
SpikeBloomTween ==
  Tween("spikeBloom", "bloom", << >>, << 3000, 2000 >>, 2, "power1.out", TRUE)

\* the tweens of the tick that ends the release: the card's entrance, restore
\* the bloom
CardScaleTween ==
  Tween("cardScale", "cardScale", << >>, << Milli >>, 8, "back.out", FALSE)
CardRotationTween ==
  Tween("cardRotation", "cardRotation", << >>, << 0 >>, 8, "power2.out",
        FALSE)
RestoreBloomTween ==
  Tween("restoreBloom", "bloom", << >>, << 1500, 1300 >>, 5, "power1.out",
        FALSE)

\* the tweens of handleTap in result: lighten the screen, reset the bloom
UndarkenTween ==
  Tween("undarken", "overlay", << 700 >>, << 0 >>, 5, "power1.out", FALSE)
ResetBloomTween ==
  Tween("resetBloom", "bloom", << >>, << 1200, 1200 >>, 5, "power1.out",
        FALSE)

\* gsap.to: the new tween is rendered after the tweens alive, which it leaves
\* alone (no overwrite is asked for).  A tween of the same call site that is
\* still alive is taken to have ended: two calls of one site are a whole draw
\* apart.
StartTween(tws, tw) ==
  LET Other(t) == t.site # tw.site
  IN Append(SelectSeq(tws, Other), tw)

\* the tweened properties by target
Props ==
  [ overlay |-> << overlayAlpha >>,
    bloom |-> << bloomScale, brightness >>,
    flash |-> << flashAlpha >>,
    cardScale |-> << cardScale >>,
    cardRotation |-> << cardRotation >> ]

\* one tween rendered dt later: the tween after it, whether it has ended, and
\* the properties after its write (onUpdate: updateOverlay, the white fill;
\* onComplete of the flash: drawBackground)
RenderTween(tw, props, dt) ==
  LET total == IF tw.yoyo THEN 2 * tw.duration ELSE tw.duration
      time == IF tw.time + dt < total THEN tw.time + dt ELSE total
      from == IF tw.from = << >> THEN props[tw.target] ELSE tw.from
      t == IF time > tw.duration THEN total - time ELSE time
      ratio == Ease(tw.ease, t, tw.duration)
      value == [ i \in 1..Len(from) |->
                   from[i] + ((tw.to[i] - from[i]) * ratio) \div Milli ]
      written == [ props EXCEPT ![tw.target] = value ]
  IN [ tween |-> [ tw EXCEPT !.time = time, !.from = from ],
       done |-> (time = total),
       props |-> IF time = total /\ tw.target = "flash"
                 THEN [ written EXCEPT !.flash = << Starfield >> ]
                 ELSE written ]

\* the tweens alive rendered in the order of their creation
RECURSIVE Render(_, _, _)
Render(tws, props, dt) ==
  IF tws = << >>
  THEN [ tweens |-> << >>, props |-> props ]
  ELSE LET r == RenderTween(Head(tws), props, dt)
           rest == Render(Tail(tws), r.props, dt)
       IN [ tweens |-> IF r.done THEN rest.tweens
                       ELSE << r.tween >> \o rest.tweens,
            props |-> rest.props ]

\* Math.sin(idleTime * 0.5) * 0.02, by sin x = x - x^3 / 6 (x = t / 100 is
\* below 1/2 for the idleTime t the model reaches)
Sway(t) == (200 * t - (t * t * t) \div 300) \div Milli

\* -------------------------------------------------------------------- Init
Init ==
  /\ phase = "idle"
  /\ chargeProgress = 0
  /\ selectedFortune = NoFortune
  /\ particles = << >>
  /\ energyParticles = << >>
  /\ concentrationLines = << >>
  /\ idleTime = 0
  /\ screen \in ScreenSizes
  /\ instructionVisible = TRUE
  /\ cardVisible = FALSE
  /\ cardFortune = NoFortune
  /\ gachaScale = ScaleOne
  /\ gachaAlpha = One
  /\ tweens = << >>
  /\ overlayAlpha = 0
  /\ bloomScale = 1200
  /\ brightness = 1200
  /\ flashAlpha = Starfield
  /\ cardScale = Milli
  /\ cardRotation = 0
  /\ chargeElapsed = 0
  /\ releaseElapsed = 0
  /\ lastEvent = "init"

\* --------------------------------------------------------------- handleTap
\* FORTUNES[Math.floor(Math.random() * FORTUNES.length)], as an index
SelectFortune(u) == RandomIndex(u, Len(FORTUNES)) + 1

\* mutant: the tap in idle starts the charge without chargeProgress = 0
TapIdleKeepsProgress(u) ==
  /\ phase = "idle"
  /\ phase' = "charging"
  /\ selectedFortune' = SelectFortune(u)
  /\ instructionVisible' = FALSE
  /\ chargeElapsed' = 0
  /\ lastEvent' = "tap"
  /\ UNCHANGED << chargeProgress, particles, energyParticles,
                  concentrationLines, idleTime, screen, cardVisible,
                  cardFortune, gachaScale, gachaAlpha, releaseElapsed >>
  /\ tweens' = StartTween(StartTween(tweens, DarkenTween), ChargeBloomTween)
  /\ UNCHANGED tweened

\* mutant: the tap in idle starts the charge without selecting a fortune
TapIdleSelectsNothing(u) ==
  /\ phase = "idle"
  /\ phase' = "charging"
  /\ chargeProgress' = 0
  /\ instructionVisible' = FALSE
  /\ chargeElapsed' = 0
  /\ lastEvent' = "tap"
  /\ UNCHANGED << selectedFortune, particles, energyParticles,
                  concentrationLines, idleTime, screen, cardVisible,
                  cardFortune, gachaScale, gachaAlpha, releaseElapsed >>
  /\ tweens' = StartTween(StartTween(tweens, DarkenTween), ChargeBloomTween)
  /\ UNCHANGED tweened

TapIdle(u) ==
  /\ phase = "idle"
  /\ phase' = "charging"
  /\ chargeProgress' = 0
  /\ selectedFortune' = SelectFortune(u)
  /\ instructionVisible' = FALSE
  /\ chargeElapsed' = 0
  /\ lastEvent' = "tap"
  /\ UNCHANGED << particles, energyParticles, concentrationLines, idleTime,
                  screen, cardVisible, cardFortune, gachaScale, gachaAlpha,
                  releaseElapsed >>
  /\ tweens' = StartTween(StartTween(tweens, DarkenTween), ChargeBloomTween)
  /\ UNCHANGED tweened

\* mutant: the reset to idle also forgets the fortune (selectedFortune = null)
TapResultForgetsFortune ==
  /\ phase = "result"
  /\ phase' = "idle"
  /\ cardVisible' = FALSE
  /\ particles' = << >>
  /\ instructionVisible' = TRUE
  /\ selectedFortune' = NoFortune
  /\ releaseElapsed' = 0
  /\ lastEvent' = "tap"
  /\ UNCHANGED << chargeProgress, energyParticles, concentrationLines,
                  idleTime, screen, cardFortune, gachaScale, gachaAlpha,
                  chargeElapsed >>
  /\ tweens' = StartTween(StartTween(tweens, UndarkenTween), ResetBloomTween)
  /\ UNCHANGED tweened

\* mutant: the reset to idle without particles = []
TapResultKeepsParticles ==
  /\ phase = "result"
  /\ phase' = "idle"
  /\ cardVisible' = FALSE
  /\ instructionVisible' = TRUE
  /\ releaseElapsed' = 0
  /\ lastEvent' = "tap"
  /\ UNCHANGED << chargeProgress, selectedFortune, particles,
                  energyParticles, concentrationLines, idleTime, screen,
                  cardFortune, gachaScale, gachaAlpha, chargeElapsed >>
  /\ tweens' = StartTween(StartTween(tweens, UndarkenTween), ResetBloomTween)
  /\ UNCHANGED tweened

\* mutant: the reset to idle without cardContainer.visible = false
TapResultKeepsCard ==
  /\ phase = "result"
  /\ phase' = "idle"
  /\ particles' = << >>
  /\ instructionVisible' = TRUE
  /\ releaseElapsed' = 0
  /\ lastEvent' = "tap"
  /\ UNCHANGED << chargeProgress, selectedFortune, energyParticles,
                  concentrationLines, idleTime, screen, cardVisible,
                  cardFortune, gachaScale, gachaAlpha, chargeElapsed >>
  /\ tweens' = StartTween(StartTween(tweens, UndarkenTween), ResetBloomTween)
  /\ UNCHANGED tweened

TapResult ==
  /\ phase = "result"
  /\ phase' = "idle"
  /\ cardVisible' = FALSE
  /\ particles' = << >>
  /\ instructionVisible' = TRUE
  /\ releaseElapsed' = 0
  /\ lastEvent' = "tap"
  /\ UNCHANGED << chargeProgress, selectedFortune, energyParticles,
                  concentrationLines, idleTime, screen, cardFortune,
                  gachaScale, gachaAlpha, chargeElapsed >>
  /\ tweens' = StartTween(StartTween(tweens, UndarkenTween), ResetBloomTween)
  /\ UNCHANGED tweened

\* mutant: the reset branch is a plain else, so a tap during a draw cancels it
TapCancelsDraw ==
  /\ phase \in {"charging", "releasing"}
  /\ phase' = "idle"
  /\ cardVisible' = FALSE
  /\ particles' = << >>
  /\ instructionVisible' = TRUE
  /\ lastEvent' = "tap"
  /\ UNCHANGED << chargeProgress, selectedFortune, energyParticles,
                  concentrationLines, idleTime, screen, cardFortune,
                  gachaScale, gachaAlpha, chargeElapsed, releaseElapsed >>
  /\ tweens' = StartTween(StartTween(tweens, UndarkenTween), ResetBloomTween)
  /\ UNCHANGED tweened

\* mutant: handleTap resets chargeProgress before it looks at the phase
TapResetsProgress ==
  /\ phase \in {"charging", "releasing"}
  /\ chargeProgress' = 0
  /\ lastEvent' = "tap"
  /\ UNCHANGED << phase, selectedFortune, particles, energyParticles,
                  concentrationLines, idleTime, screen, instructionVisible,
                  cardVisible, cardFortune, gachaScale, gachaAlpha,
                  chargeElapsed, releaseElapsed >>
  /\ UNCHANGED << tweens, tweened >>

TapIgnored ==
  /\ phase \in {"charging", "releasing"}
  /\ lastEvent' = "tap"
  /\ UNCHANGED << phase, chargeProgress, selectedFortune, particles,
                  energyParticles, concentrationLines, idleTime, screen,
                  instructionVisible, cardVisible, cardFortune, gachaScale,
                  gachaAlpha, chargeElapsed, releaseElapsed >>
  /\ UNCHANGED << tweens, tweened >>

handleTap ==
  \/ \E u \in RandomDraws : TapIdle(u)
  \/ TapResult
  \/ TapIgnored

\* ------------------------------------------------- app.ticker.add callback
\* phase === 'idle': breathing animation
TickIdle(delta) ==
  /\ phase = "idle"
  /\ idleTime + delta <= MaxIdleTime
  /\ idleTime' = idleTime + delta
  /\ lastEvent' = "tick"
  /\ UNCHANGED << phase, chargeProgress, selectedFortune, particles,
                  energyParticles, concentrationLines, screen,
                  instructionVisible, cardVisible, cardFortune, gachaScale,
                  gachaAlpha, chargeElapsed, releaseElapsed >>
  /\ UNCHANGED << tweens, tweened >>

\* the two spawn tests of the charging branch (a collection at its bound
\* takes no more)
SpawnsEnergy(ue) == RandomBelow(ue, 3) /\ Len(energyParticles) < MaxEnergy
SpawnsLine(ul) == RandomBelow(ul, 2) /\ Len(concentrationLines) < MaxLines

\* mutant: the tick that ends the charge does not clear the concentration
\* effects
TickChargingKeepsEffects(delta, ue, ce, ul, cl, r) ==
  LET progress == chargeProgress + delta * ReleaseTicks
      energy1 == IF SpawnsEnergy(ue)
                 THEN Append(energyParticles, EnergyParticle(ce))
                 ELSE energyParticles
      lines1 == IF SpawnsLine(ul)
                THEN Append(concentrationLines, addConcentrationLine(cl))
                ELSE concentrationLines
  IN /\ phase = "charging"
     /\ IF SpawnsEnergy(ue) /\ progress < One
        THEN ce \in EnergyDraws ELSE ce = 0
     /\ IF SpawnsLine(ul) /\ progress < One
        THEN cl \in LineDraws ELSE cl = 0
     /\ progress >= One \/ r = 0
     /\ progress < One \/ (ue = 0 /\ ul = 0)
     /\ gachaScale' = ScaleOne + progress
     /\ lastEvent' = "tick"
     /\ chargeElapsed' = chargeElapsed + delta
     /\ IF progress >= One
        THEN /\ phase' = "releasing"
             /\ chargeProgress' = 0
             /\ particles' = particles \o Explosion(r)
             /\ concentrationLines' = FilterLines(lines1, delta)
             /\ energyParticles' = FilterEnergy(energy1, delta)
             /\ releaseElapsed' = 0
        ELSE /\ phase' = phase
             /\ chargeProgress' = progress
             /\ particles' = particles
             /\ concentrationLines' = FilterLines(lines1, delta)
             /\ energyParticles' = FilterEnergy(energy1, delta)
             /\ releaseElapsed' = releaseElapsed
     /\ UNCHANGED << selectedFortune, idleTime, screen, instructionVisible,
                     cardVisible, cardFortune, gachaAlpha >>
     /\ tweens' = IF progress >= One
                   THEN StartTween(StartTween(tweens, FlashTween),
                                   SpikeBloomTween)
                   ELSE tweens
     /\ UNCHANGED tweened

\* phase === 'charging'; ue, ul are the Math.random() results of the two
\* spawn tests, ce, cl those of the constructors, r the explosion's stream
\* (a draw that is not made is taken as 0, and so are the spawn draws of the
\* tick that ends the charge, which clears both collections)
TickCharging(delta, ue, ce, ul, cl, r) ==
  LET progress == chargeProgress + delta * ReleaseTicks
      energy1 == IF SpawnsEnergy(ue)
                 THEN Append(energyParticles, EnergyParticle(ce))
                 ELSE energyParticles
      lines1 == IF SpawnsLine(ul)
                THEN Append(concentrationLines, addConcentrationLine(cl))
                ELSE concentrationLines
  IN /\ phase = "charging"
     /\ IF SpawnsEnergy(ue) /\ progress < One
        THEN ce \in EnergyDraws ELSE ce = 0
     /\ IF SpawnsLine(ul) /\ progress < One
        THEN cl \in LineDraws ELSE cl = 0
     /\ progress >= One \/ r = 0
     /\ progress < One \/ (ue = 0 /\ ul = 0)
     /\ gachaScale' = ScaleOne + progress
     /\ lastEvent' = "tick"
     /\ chargeElapsed' = chargeElapsed + delta
     /\ IF progress >= One
        THEN /\ phase' = "releasing"
             /\ chargeProgress' = 0
             /\ particles' = particles \o Explosion(r)
             /\ concentrationLines' = << >>
             /\ energyParticles' = << >>
             /\ releaseElapsed' = 0
        ELSE /\ phase' = phase
             /\ chargeProgress' = progress
             /\ particles' = particles
             /\ concentrationLines' = FilterLines(lines1, delta)
             /\ energyParticles' = FilterEnergy(energy1, delta)
             /\ releaseElapsed' = releaseElapsed
     /\ UNCHANGED << selectedFortune, idleTime, screen, instructionVisible,
                     cardVisible, cardFortune, gachaAlpha >>
     /\ tweens' = IF progress >= One
                   THEN StartTween(StartTween(tweens, FlashTween),
                                   SpikeBloomTween)
                   ELSE tweens
     /\ UNCHANGED tweened

\* mutant: the releasing branch advances at the rate of the charge
\* (delta / 90)
TickReleasingAtChargeRate(delta) ==
  LET progress == chargeProgress + delta * ReleaseTicks
  IN /\ phase = "releasing"
     /\ chargeProgress' = progress
     /\ particles' = FilterAlive(particles, delta)
     /\ gachaAlpha' = One - progress
     /\ lastEvent' = "tick"
     /\ releaseElapsed' = releaseElapsed + delta
     /\ IF progress >= One /\ selectedFortune # NoFortune
        THEN /\ phase' = "result"
             /\ gachaScale' = ScaleOne
             /\ cardVisible' = TRUE
             /\ cardFortune' = selectedFortune
             /\ chargeElapsed' = 0
        ELSE UNCHANGED << phase, gachaScale, cardVisible, cardFortune,
                          chargeElapsed >>
     /\ UNCHANGED << selectedFortune, energyParticles, concentrationLines,
                     idleTime, screen, instructionVisible >>
     /\ IF progress >= One /\ selectedFortune # NoFortune
        THEN /\ cardScale' = 0
             /\ cardRotation' = Pi
             /\ tweens' = StartTween(StartTween(StartTween(tweens,
                             CardScaleTween), CardRotationTween),
                             RestoreBloomTween)
        ELSE UNCHANGED << cardScale, cardRotation, tweens >>
     /\ UNCHANGED << overlayAlpha, bloomScale, brightness, flashAlpha >>

\* mutant: the release waits for the flash: the card is shown only once the
\* flash tween has ended
TickReleasingAwaitsFlash(delta) ==
  LET progress == chargeProgress + delta * ChargeTicks
      FlashAlive == \E i \in 1..Len(tweens) : tweens[i].site = "flash"
  IN /\ phase = "releasing"
     /\ chargeProgress' = progress
     /\ particles' = FilterAlive(particles, delta)
     /\ gachaAlpha' = One - progress
     /\ lastEvent' = "tick"
     /\ releaseElapsed' = releaseElapsed + delta
     /\ IF progress >= One /\ selectedFortune # NoFortune /\ ~FlashAlive
        THEN /\ phase' = "result"
             /\ gachaScale' = ScaleOne
             /\ cardVisible' = TRUE
             /\ cardFortune' = selectedFortune
             /\ chargeElapsed' = 0
        ELSE UNCHANGED << phase, gachaScale, cardVisible, cardFortune,
                          chargeElapsed >>
     /\ UNCHANGED << selectedFortune, energyParticles, concentrationLines,
                     idleTime, screen, instructionVisible >>
     /\ IF progress >= One /\ selectedFortune # NoFortune /\ ~FlashAlive
        THEN /\ cardScale' = 0
             /\ cardRotation' = Pi
             /\ tweens' = StartTween(StartTween(StartTween(tweens,
                             CardScaleTween), CardRotationTween),
                             RestoreBloomTween)
        ELSE UNCHANGED << cardScale, cardRotation, tweens >>
     /\ UNCHANGED << overlayAlpha, bloomScale, brightness, flashAlpha >>

\* phase === 'releasing'
TickReleasing(delta) ==
  LET progress == chargeProgress + delta * ChargeTicks
  IN /\ phase = "releasing"
     /\ chargeProgress' = progress
     /\ particles' = FilterAlive(particles, delta)
     /\ gachaAlpha' = One - progress
     /\ lastEvent' = "tick"
     /\ releaseElapsed' = releaseElapsed + delta
     /\ IF progress >= One /\ selectedFortune # NoFortune
        THEN /\ phase' = "result"
             /\ gachaScale' = ScaleOne
             /\ cardVisible' = TRUE
             /\ cardFortune' = selectedFortune
             /\ chargeElapsed' = 0
        ELSE UNCHANGED << phase, gachaScale, cardVisible, cardFortune,
                          chargeElapsed >>
     /\ UNCHANGED << selectedFortune, energyParticles, concentrationLines,
                     idleTime, screen, instructionVisible >>
     /\ IF progress >= One /\ selectedFortune # NoFortune
        THEN /\ cardScale' = 0
             /\ cardRotation' = Pi
             /\ tweens' = StartTween(StartTween(StartTween(tweens,
                             CardScaleTween), CardRotationTween),
                             RestoreBloomTween)
        ELSE UNCHANGED << cardScale, cardRotation, tweens >>
     /\ UNCHANGED << overlayAlpha, bloomScale, brightness, flashAlpha >>

\* the ambient particles in the collection (they alone float upward)
IsAmbient(p) == p.gravity < 0

\* the spawn test of the result branch (the ambient particles at their bound
\* take no more)
SpawnsAmbient(ua) ==
  /\ RandomBelow(ua, 1) /\ selectedFortune # NoFortune
  /\ Len(SelectSeq(particles, IsAmbient)) < MaxAmbient

\* mutant: the result dismisses itself: a tick in result goes on to the reset
\* of handleTap
TickResultDismisses(delta, ua, ca) ==
  /\ phase = "result"
  /\ idleTime + delta <= MaxIdleTime
  /\ ua = 0 /\ ca = 0
  /\ phase' = "idle"
  /\ cardVisible' = FALSE
  /\ particles' = << >>
  /\ instructionVisible' = TRUE
  /\ idleTime' = idleTime + delta
  /\ releaseElapsed' = 0
  /\ lastEvent' = "tick"
  /\ UNCHANGED << chargeProgress, selectedFortune, energyParticles,
                  concentrationLines, screen, cardFortune, gachaScale,
                  gachaAlpha, chargeElapsed >>
  /\ tweens' = StartTween(StartTween(tweens, UndarkenTween), ResetBloomTween)
  /\ UNCHANGED tweened

\* phase === 'result'; ua is the Math.random() result of the spawn test, ca
\* that of the ambient particle's draws
TickResult(delta, ua, ca) ==
  /\ phase = "result"
  /\ idleTime + delta <= MaxIdleTime
  /\ SpawnsAmbient(ua) \/ ca = 0
  /\ particles' = FilterAlive(IF SpawnsAmbient(ua)
                              THEN Append(particles, AmbientParticle(ca))
                              ELSE particles, delta)
  /\ idleTime' = idleTime + delta
  /\ lastEvent' = "tick"
  /\ UNCHANGED << phase, chargeProgress, selectedFortune, energyParticles,
                  concentrationLines, screen, instructionVisible,
                  cardVisible, cardFortune, gachaScale, gachaAlpha,
                  chargeElapsed, releaseElapsed >>
  /\ cardRotation' = Sway(idleTime)
  /\ UNCHANGED << tweens, overlayAlpha, bloomScale, brightness, flashAlpha,
                  cardScale >>

\* the callback called with a deltaTime of the set D
TickBy(D) ==
  \E delta \in D :
    \/ TickIdle(delta)
    \/ \E ue, ul \in RandomDraws : \E ce \in EnergyDraws \cup {0} :
         \E cl \in LineDraws \cup {0} : \E r \in 0..(NumStreams - 1) :
           TickCharging(delta, ue, ce, ul, cl, r)
    \/ TickReleasing(delta)
    \/ \E ua, ca \in RandomDraws : TickResult(delta, ua, ca)

Tick == TickBy(Deltas)

\* ------------------------------------------------------------ gsap's ticker
\* a frame of gsap's ticker, dt after the frame before: every tween alive is
\* rendered
gsapTick(dt) ==
  LET r == Render(tweens, Props, dt)
  IN /\ tweens # << >>
     /\ tweens' = r.tweens
     /\ overlayAlpha' = r.props.overlay[1]
     /\ bloomScale' = r.props.bloom[1]
     /\ brightness' = r.props.bloom[2]
     /\ flashAlpha' = r.props.flash[1]
     /\ cardScale' = r.props.cardScale[1]
     /\ cardRotation' = r.props.cardRotation[1]
     /\ lastEvent' = "gsap"
     /\ UNCHANGED << phase, chargeProgress, selectedFortune, particles,
                     energyParticles, concentrationLines, idleTime, screen,
                     instructionVisible, cardVisible, cardFortune,
                     gachaScale, gachaAlpha, chargeElapsed, releaseElapsed >>

\* ------------------------------------------------------------ handleResize
\* mutant: the resize also re-targets the concentration lines at the new
\* centre
handleResizeRecentres(s) ==
  /\ screen' = s
  /\ lastEvent' = "resize"
  /\ cardFortune' = IF phase = "result" /\ selectedFortune # NoFortune
                    THEN selectedFortune ELSE cardFortune
  /\ concentrationLines' =
       [ i \in 1..Len(concentrationLines) |->
           [ concentrationLines[i] EXCEPT !.targetX = CenterX(s),
                                          !.targetY = CenterY(s) ] ]
  /\ UNCHANGED << phase, chargeProgress, selectedFortune, particles,
                  energyParticles, idleTime, instructionVisible, cardVisible,
                  gachaScale, gachaAlpha, chargeElapsed, releaseElapsed >>
  /\ flashAlpha' = Starfield
  /\ UNCHANGED << tweens, overlayAlpha, bloomScale, brightness, cardScale,
                  cardRotation >>

\* the window takes the size s; drawBackground redraws the starfield and
\* drawCard the selected fortune
handleResize(s) ==
  /\ screen' = s
  /\ lastEvent' = "resize"
  /\ cardFortune' = IF phase = "result" /\ selectedFortune # NoFortune
                    THEN selectedFortune ELSE cardFortune
  /\ UNCHANGED << phase, chargeProgress, selectedFortune, particles,
                  energyParticles, concentrationLines, idleTime,
                  instructionVisible, cardVisible, gachaScale, gachaAlpha,
                  chargeElapsed, releaseElapsed >>
  /\ flashAlpha' = Starfield
  /\ UNCHANGED << tweens, overlayAlpha, bloomScale, brightness, cardScale,
                  cardRotation >>

Next ==
  \/ handleTap
  \/ Tick
  \/ \E s \in ScreenSizes : handleResize(s)

Spec == Init /\ [][Next]_vars

\* the draw in a window that keeps its size: taps and ticks alone.  The ticker
\* calls its callback on every frame for as long as the page lives: a tick
\* that stays possible is eventually taken
DrawNext ==
  \/ handleTap
  \/ Tick

FairSpec == Init /\ [][DrawNext]_vars /\ WF_vars(Tick)

\* the draw with its tweens: taps, ticks of the longest deltaTime and the
\* frames of gsap's ticker, in any order
TweenNext ==
  \/ handleTap
  \/ TickBy({DeltaUnit * MaxDeltaSteps})
  \/ \E dt \in GsapDeltas : gsapTick(dt)

TweenSpec == Init /\ [][TweenNext]_vars

\* ==================================================================== claims

\* C1: the phase starts at idle and every change of phase, under any
\* sequence of taps, ticks and resizes, is one of idle -> charging,
\* charging -> releasing, releasing -> result, result -> idle.
C1_PhaseCycle ==
  /\ phase = "idle"
  /\ [][ phase' # phase =>
           << phase, phase' >> \in { << "idle", "charging" >>,
                                     << "charging", "releasing" >>,
                                     << "releasing", "result" >>,
                                     << "result", "idle" >> } ]_vars

\* C1 witness: a whole cycle has been walked: idle again, by the tap that
\* left result, with the card of the finished draw still drawn.
C1_Witness ==
  /\ phase = "idle" /\ lastEvent = "tap"
  /\ cardFortune # NoFortune /\ chargeProgress >= One

\* C2: a tap while the phase is charging or releasing leaves phase,
\* chargeProgress and selectedFortune as they were.
C2_TapIgnoredInDraw ==
  [][ (phase \in {"charging", "releasing"} /\ lastEvent' = "tap") =>
        UNCHANGED << phase, chargeProgress, selectedFortune >> ]_vars

\* C2 witness: a tap has been made in the middle of a charge (after a tick
\* of it) and the charge goes on.
C2_Witness ==
  /\ phase = "charging" /\ lastEvent = "tap"
  /\ chargeProgress > 0 /\ chargeElapsed > 0

\* C3: selectedFortune changes only in the tap that takes idle to charging,
\* which assigns an entry of FORTUNES; it keeps its value through charging,
\* releasing and result, and the card of the result phase shows that entry.
C3_FortuneCommitted ==
  /\ [][ /\ selectedFortune' # selectedFortune =>
              (phase = "idle" /\ phase' = "charging" /\ lastEvent' = "tap")
         /\ (phase = "idle" /\ phase' = "charging") =>
              selectedFortune' \in 1..Len(FORTUNES)
         /\ phase' = "result" =>
              (cardVisible' /\ cardFortune' = selectedFortune') ]_vars

\* C3 witness: a draw has reached its result after ticks and a resize, and
\* the card shows the fortune its first tap committed (here the entry the
\* draw 1/2 selects).
C3_Witness ==
  /\ phase = "result" /\ cardVisible /\ lastEvent = "resize"
  /\ cardFortune = selectedFortune
  /\ selectedFortune = SelectFortune(RandDen \div 2)

\* C4 (scenario A): after the tap in idle the phase stays charging while the
\* deltaTime summed over the ticks is below 90; the tick at which the sum
\* reaches 90 or more sets the phase to releasing, resets chargeProgress to
\* 0 and leaves exactly 150 particles, each of a colour of the palette.
C4_ChargeEndsAt90 ==
  [][ (phase = "charging" /\ lastEvent' = "tick") =>
        IF chargeElapsed' >= ChargeTicks
        THEN /\ phase' = "releasing"
             /\ chargeProgress' = 0
             /\ Len(particles') = ExplosionCount
             /\ \A i \in 1..Len(particles') :
                  \E k \in 1..Len(colors) : particles'[i].color = colors[k]
        ELSE /\ phase' = "charging"
             /\ chargeElapsed' > chargeElapsed ]_vars

\* C4 witness: the second draw has just been released, by a tick that
\* brought the sum to exactly 90.
C4_Witness ==
  /\ phase = "releasing" /\ lastEvent = "tick"
  /\ chargeElapsed = ChargeTicks /\ chargeProgress = 0
  /\ Len(particles) = ExplosionCount
  /\ cardFortune # NoFortune

\* C5 (scenario B): in releasing, with a fortune selected, the phase stays
\* releasing and the card hidden while the deltaTime summed since the
\* release is below 60; the tick at which it reaches 60 or more sets the
\* phase to result, shows the card and sets the orb layer scale to 1.
C5_ReleaseEndsAt60 ==
  [][ (phase = "releasing" /\ selectedFortune # NoFortune
         /\ lastEvent' = "tick") =>
        IF releaseElapsed' >= ReleaseTicks
        THEN phase' = "result" /\ cardVisible' /\ gachaScale' = ScaleOne
        ELSE phase' = "releasing" /\ ~cardVisible' ]_vars

\* C5 witness: the result was reached by a tick that overshot 60, after a
\* charge that had scaled the orb layer up.
C5_Witness ==
  /\ phase = "result" /\ cardVisible /\ gachaScale = ScaleOne
  /\ releaseElapsed > ReleaseTicks /\ idleTime = 0 /\ lastEvent = "tick"

\* C6 (scenario C): a tap in result sets the phase to idle, empties the
\* explosion/ambient collection, hides the card and shows the instruction
\* prompt, whatever the collection held.
C6_TapInResult ==
  [][ (phase = "result" /\ lastEvent' = "tap") =>
        /\ phase' = "idle"
        /\ particles' = << >>
        /\ ~cardVisible'
        /\ instructionVisible' ]_vars

\* C6 witness: the result phase holds explosion and ambient particles, so
\* the tap has a collection to clear.
C6_Witness ==
  /\ phase = "result" /\ cardVisible /\ ~instructionVisible
  /\ \E i \in 1..Len(particles) : IsAmbient(particles[i])
  /\ \E i \in 1..Len(particles) : ~IsAmbient(particles[i])

\* C7 (scenario D): at the end of every tick no energy particle within 50 of
\* the centre is left in the collection: the tick that brings a particle
\* within 50 removes it, also when its life is still above 0.
C7_EnergyAbsorbed ==
  lastEvent = "tick" =>
    \A i \in 1..Len(energyParticles) : ~ReachedCenter(energyParticles[i])

\* C7 witness: a charge holds an energy particle, moved by a tick, that the
\* next tick (which does not end the charge) brings within 50 of the centre
\* with life left.
C7_Witness ==
  /\ phase = "charging" /\ lastEvent = "tick"
  /\ \E i \in 1..Len(energyParticles) : \E d \in Deltas :
       /\ chargeProgress + d * ReleaseTicks < One
       /\ ~ReachedCenter(energyParticles[i])
       /\ ReachedCenter(ParticleUpdate(energyParticles[i], d))
       /\ ParticleAlive(ParticleUpdate(energyParticles[i], d))

\* C8: chargeProgress lies in [0, 1] in every reachable state.
C8_ProgressInUnitInterval ==
  chargeProgress >= 0 /\ chargeProgress <= One

\* the particles of both collections
AllParticles ==
  { particles[i] : i \in 1..Len(particles) }
    \cup { energyParticles[i] : i \in 1..Len(energyParticles) }

\* p and q are one particle at two moments: all that update leaves alone
SameParticle(p, q) ==
  /\ p.color = q.color /\ p.size = q.size
  /\ p.mlNum = q.mlNum /\ p.mlDen = q.mlDen
  /\ p.gravity = q.gravity /\ p.friction = q.friction

\* every particle of new is one of old (in the order of old) whose life has
\* not grown, or was created in this step: pushed with life 1, or pushed
\* last and updated once
LivesNotGrown(old, new) ==
  \A j \in 1..Len(new) :
    \/ \E i \in j..Len(old) :
         SameParticle(old[i], new[j]) /\ new[j].life <= old[i].life
    \/ new[j].life = LifeOne
    \/ /\ j = Len(new)
       /\ \E d \in Deltas : new[j].life = LifeOne - LifeDecay(new[j], d)

\* C9: every particle in a collection has 0 < life <= 1; an update with a
\* positive deltaTime strictly decreases life; and no step increases the
\* life of a particle it keeps.
C9_LifeDecays ==
  /\ [](\A p \in AllParticles :
          /\ p.life > 0 /\ p.life <= LifeOne
          /\ \A d \in Deltas : ParticleUpdate(p, d).life < p.life)
  /\ [][ /\ LivesNotGrown(particles, particles')
         /\ LivesNotGrown(energyParticles, energyParticles') ]_vars

\* C9 witness: part of the explosion has died of life <= 0 and been removed,
\* the rest is still in the collection.
C9_Witness ==
  /\ phase \in {"releasing", "result"} /\ lastEvent = "tick"
  /\ Len(particles) > 0 /\ Len(particles) < ExplosionCount
  /\ \A i \in 1..Len(particles) : ~IsAmbient(particles[i])

\* l and m are one line at two moments: all that update leaves alone
SameLine(l, m) ==
  /\ l.angle = m.angle /\ l.speed = m.speed /\ l.length = m.length
  /\ l.width = m.width /\ l.targetX = m.targetX /\ l.targetY = m.targetY

\* C10: every line in the collection has distance > 0; an update never
\* increases distance; and no step increases the distance of a line it
\* keeps (a line created in the step comes last, already updated once).
C10_LineConverges ==
  /\ [](\A i \in 1..Len(concentrationLines) :
          /\ concentrationLines[i].distance > 0
          /\ \A d \in Deltas :
               LineUpdate(concentrationLines[i], d).distance
                 <= concentrationLines[i].distance)
  /\ [][ \A j \in 1..Len(concentrationLines') :
           \/ \E i \in j..Len(concentrationLines) :
                /\ SameLine(concentrationLines[i], concentrationLines'[j])
                /\ concentrationLines'[j].distance
                     <= concentrationLines[i].distance
           \/ /\ j = Len(concentrationLines')
              /\ \E u \in LineDraws : \E d \in Deltas :
                   concentrationLines'[j] =
                     LineUpdate(addConcentrationLine(u), d) ]_vars

\* C10 witness: a charge holds a line, moved by a tick, whose distance the
\* next tick (which does not end the charge) brings to 0 or below.
C10_Witness ==
  /\ phase = "charging" /\ lastEvent = "tick"
  /\ \E i \in 1..Len(concentrationLines) : \E d \in Deltas :
       /\ chargeProgress + d * ReleaseTicks < One
       /\ LineUpdate(concentrationLines[i], d).distance <= 0

\* C11: a resize, in any phase and between any ticks and taps, leaves phase,
\* chargeProgress, selectedFortune, the particle collections and the
\* concentration lines unchanged; every line keeps the target point it was
\* constructed with.
C11_ResizeFrame ==
  [][ lastEvent' = "resize" =>
        /\ UNCHANGED << phase, chargeProgress, selectedFortune, particles,
                        energyParticles, concentrationLines >>
        /\ \A i \in 1..Len(concentrationLines') :
             /\ concentrationLines'[i].targetX = concentrationLines[i].targetX
             /\ concentrationLines'[i].targetY = concentrationLines[i].targetY
      ]_vars

\* C11 witness: a resize in the middle of a charge has moved the centre away
\* from the target of a line that is still converging.
C11_Witness ==
  /\ phase = "charging" /\ lastEvent = "resize" /\ chargeProgress > 0
  /\ \E i \in 1..Len(concentrationLines) :
       concentrationLines[i].targetX # getCenterX

\* C12: once a tap has started a draw, ticks alone carry it on: charging
\* leads to releasing and releasing to result, whatever else happens; and a
\* step that is no tap never changes the phase in idle or in result, so the
\* phase stays result until the next tap and ticks alone never leave idle.
C12_DrawCompletes ==
  /\ (phase = "charging") ~> (phase = "releasing")
  /\ (phase = "releasing") ~> (phase = "result")
  /\ [][ (phase \in {"idle", "result"} /\ lastEvent' # "tap") =>
           phase' = phase ]_vars

\* C12 witness: a draw has run to its result and ticks have gone on in it
\* without leaving it.
C12_Witness ==
  /\ phase = "result" /\ lastEvent = "tick" /\ idleTime > 0
  /\ releaseElapsed >= ReleaseTicks

\* C16: in every state (after every tick, tap and resize) the energy
\* particles and the concentration lines are empty unless the phase is
\* charging, and the explosion/ambient collection is empty in idle and in
\* charging.
C16_CollectionsOwned ==
  /\ phase # "charging" =>
       (energyParticles = << >> /\ concentrationLines = << >>)
  /\ phase \in {"idle", "charging"} => particles = << >>

\* C16 witness: the charge of a later draw holds an energy particle and a
\* line, after the reset has cleared the explosion of the draw before.
C16_Witness ==
  /\ phase = "charging" /\ cardFortune # NoFortune
  /\ Len(energyParticles) > 0 /\ Len(concentrationLines) > 0
  /\ particles = << >>

\* C18: whenever the phase is idle or charging, in the first draw and in
\* every later one, the orb alpha (gachaGraphics.alpha, glowGraphics.alpha)
\* is 1.
C18_OrbVisible ==
  phase \in {"idle", "charging"} => gachaAlpha = One

\* C19: in every state the card is visible exactly when the phase is result
\* and the instruction prompt exactly when the phase is idle.
C19_VisibilityTracksPhase ==
  /\ cardVisible <=> (phase = "result")
  /\ instructionVisible <=> (phase = "idle")

\* C19 witness: idle again after a draw, the card hidden and the prompt back,
\* and the idle animation ticking.
C19_Witness ==
  /\ phase = "idle" /\ lastEvent = "tick" /\ cardFortune # NoFortune
  /\ instructionVisible /\ ~cardVisible

\* C20: in charging, releasing and result selectedFortune is an entry of
\* FORTUNES, so the selectedFortune guards are never false, and no state in
\* releasing has chargeProgress >= 1: the tick that reaches 1 leaves it.
C20_FortuneSelected ==
  /\ phase \in {"charging", "releasing", "result"} =>
       selectedFortune \in 1..Len(FORTUNES)
  /\ phase = "releasing" => chargeProgress < One

\* C20 witness: a release one tick away from progress >= 1, with the fortune
\* that the guard of the transition reads.
C20_Witness ==
  /\ phase = "releasing" /\ lastEvent = "tick"
  /\ selectedFortune # NoFortune
  /\ \A d \in Deltas : chargeProgress + d * ChargeTicks >= One

\* Math.hypot(p.x - cx, p.y - cy) < 50 for the centre cx, cy the energy
\* particle p was spawned around
ReachedSpawnCenter(p) ==
  LET dx == p.x - p.cx
      dy == p.y - p.cy
      lim == ProximityRadius * Q
  IN /\ dx < lim /\ dx > 0 - lim
     /\ dy < lim /\ dy > 0 - lim
     /\ dx * dx + dy * dy < lim * lim

\* C17: at the end of every tick no energy particle within 50 of the centre
\* it was spawned around (the point it travels toward) is left in the
\* collection, also when a resize has moved the screen centre during its
\* flight.
C17_AbsorbedAtSpawnCenter ==
  lastEvent = "tick" =>
    \A i \in 1..Len(energyParticles) :
      ~ReachedSpawnCenter(energyParticles[i])

\* advance(deltaTime) and handleInput as functions of phase, progress and
\* selectedFortune alone: what they make of << ph, pr, f >>
Advance(ph, pr, f, d) ==
  CASE ph = "charging" ->
         IF pr + d * ReleaseTicks >= One
         THEN << "releasing", 0, f >>
         ELSE << "charging", pr + d * ReleaseTicks, f >>
    [] ph = "releasing" ->
         IF pr + d * ChargeTicks >= One /\ f # NoFortune
         THEN << "result", pr + d * ChargeTicks, f >>
         ELSE << "releasing", pr + d * ChargeTicks, f >>
    [] OTHER -> << ph, pr, f >>

HandleInput(ph, pr, f, u) ==
  CASE ph = "idle" -> << "charging", 0, SelectFortune(u) >>
    [] ph = "result" -> << "idle", pr, f >>
    [] OTHER -> << ph, pr, f >>

\* C13: the tweens neither block nor steer the state machine.  Whatever
\* tweens are alive, finished or superseded, a tap is possible and, during a
\* draw, so is a tick of every deltaTime; a frame of gsap's ticker leaves
\* phase, chargeProgress and selectedFortune alone; and a tick or a tap
\* makes of them what Advance or HandleInput make of them, which read no
\* tween: the schedule of the tweens does not show in them.
C13_TweensNeverInfluence ==
  /\ [](/\ ENABLED handleTap
        /\ phase \in {"charging", "releasing"} =>
             \A d \in Deltas : ENABLED TickBy({d}))
  /\ [][ /\ lastEvent' = "gsap" =>
              UNCHANGED << phase, chargeProgress, selectedFortune >>
         /\ lastEvent' = "tick" =>
              \E d \in Deltas :
                << phase', chargeProgress', selectedFortune' >> =
                  Advance(phase, chargeProgress, selectedFortune, d)
         /\ lastEvent' = "tap" =>
              \E u \in RandomDraws :
                << phase', chargeProgress', selectedFortune' >> =
                  HandleInput(phase, chargeProgress, selectedFortune, u)
       ]_vars

\* C13 witness: the draw has reached its result while the bloom tween of its
\* tap is half-way, the darken tween has ended and the flash has not been
\* rendered once.
C13_Witness ==
  /\ phase = "result" /\ lastEvent = "tick"
  /\ \E i \in 1..Len(tweens) :
       /\ tweens[i].site = "chargeBloom"
       /\ tweens[i].time > 0
  /\ \E i \in 1..Len(tweens) :
       /\ tweens[i].site = "flash"
       /\ tweens[i].time = 0
  /\ \A i \in 1..Len(tweens) : tweens[i].site # "darken"

\* C14: a tween started on a property on which an earlier tween is still
\* alive overrides it: in no frame of gsap's ticker does a tween write the
\* overlay opacity or the bloom while a later tween on the same property is
\* alive (every tween alive is rendered, and writes, in the frame).
C14_SupersededTweenSilent ==
  [][ lastEvent' = "gsap" =>
        \A i, j \in 1..Len(tweens) :
          (i < j /\ tweens[i].target \in {"overlay", "bloom"}) =>
            tweens[i].target # tweens[j].target ]_vars

====
